---------------------------- MODULE Spec2Model ----------------------------
(***************************************************************************)
(* A state-machine model of the news crawler (src/app): the storage sink   *)
(* (models/database.py, models/csv_storage.py, models/storage.py), the     *)
(* crawler base class and its adapters (scrapers/base_crawler.py,          *)
(* parsers/*.py), the paginated API fetcher (api/*.py), the orchestrator   *)
(* (utils/crawler_manager.py) and the scheduler (scheduler.py).            *)
(*                                                                         *)
(* Python raises TypeError when a call passes a keyword the callee does    *)
(* not declare, and AttributeError when an attribute or method that was    *)
(* never defined is read.  Both are modelled from the declarations in the  *)
(* source: the sets of declared parameters, methods and attributes below.  *)
(***************************************************************************)
EXTENDS Integers, Sequences, FiniteSets, TLC

(***************************************************************************)
(* Bounds of the model.                                                    *)
(***************************************************************************)
MaxOps == 3
MaxCand == 11
MaxRateCand == 2
RequestDelay == 2
MaxLinks == 3
MaxLinkId == 2
PageEnd == 2
MaxOrchOps == 4
MaxDay == 3
MaxPages == 3
MaxPageSize == 2
MaxTotal == 5
MaxFires == 5

\* Python's None.
NoneVal == "None"

URLs == {"u1", "u2"}
SourceIds == 1..2
Titles == {"t1", "t2"}
Contents == {"c1", NoneVal}

VARIABLES
  backends,     \* StorageManager.backends: the configured article backends
  articles,     \* the rows of table articles, in insertion order
  csvRows,      \* the rows appended to the CSV file, in order
  now,          \* datetime.utcnow(): advances with every operation
  lastCreate,   \* the last call of Article.create: its outcome
  lastBatch,    \* the batch of the last call of create_article_batch
  lastCall      \* the last call of create_article_batch: its outcome

storeVars == <<backends, articles, csvRows, now, lastCreate, lastBatch, lastCall>>

VARIABLES
  adapter,      \* the crawler's class: "http", "archive" or "browser"
  site,         \* what the site serves as the listing: [ok, links]
  cpc,          \* where crawl() is: idle, listing, parsing, done, raised
  cerr,         \* the exception crawl() ended with, "" when none
  candidates,   \* article_urls, the list get_article_urls returned
  idx,          \* the position of the loop over article_urls
  parsed,       \* articles, the list of parsed articles (their URLs)
  skips,        \* the "Failed to parse article" warnings logged
  sinceStamp,   \* time since last_request_time, capped at RequestDelay
  sinceReq,     \* time since the last outbound request, capped likewise
  anyReq,       \* whether this instance has issued a request
  gapOk,        \* whether all consecutive requests were RequestDelay apart
  nListReq,     \* the listing requests issued
  driver,       \* whether the browser adapter holds a Selenium driver
  sessions,     \* the browser sessions started and not quit
  bpage         \* the browser adapter's next listing page

crawlVars == <<adapter, site, cpc, cerr, candidates, idx, parsed, skips,
               sinceStamp, sinceReq, anyReq, gapOk, nListReq, driver, sessions, bpage>>

VARIABLES
  sources,      \* the rows of table sources, the id of a row its position
  mstats,       \* CrawlerManager.stats
  olast,        \* the last call on the orchestrator: its outcome
  oclock,       \* datetime.utcnow() of the orchestrator's operations
  orchStart,    \* CrawlerManager.start_date as a day number, 0 for None
  orchEnd       \* CrawlerManager.end_date likewise

orchVars == <<sources, mstats, olast, oclock, orchStart, orchEnd>>

VARIABLES
  apc,          \* where fetch_all_articles is: idle, loop, done, raised
  apage,        \* page, the variable of its for loop
  areqs,        \* the requests it has made
  aMaxPages,    \* max_pages after "max_pages or self.max_pages"
  aPageSize,    \* page_size after "page_size or self.page_size"
  aTotal,       \* the number of articles the API holds
  aWell,        \* whether every response so far was the well-behaved one
  aStop,        \* why the loop ended, "" while it runs
  aGot,         \* the articles collected or handed to on_batch
  aResp,        \* what the last request met, "" before the first
  aTries,       \* the times the last request was sent by the session
  aReported,    \* total_results of the last page with status ok
  aLastN,       \* the articles of the last page with status ok
  aStatus       \* status of the last result of fetch_articles, "" if none

apiVars == <<apc, apage, areqs, aMaxPages, aPageSize, aTotal, aWell, aStop,
             aGot, aResp, aTries, aReported, aLastN, aStatus>>

VARIABLES
  spc,          \* where scheduler.main is: boot, initial, started, exited
  cronParts,    \* the number of fields of CRAWL_SCHEDULE
  inflight,     \* the run_crawl calls in progress
  fires,        \* the times the cron trigger has fired
  suppressed,   \* the fires skipped because of max_instances
  calls,        \* the calls of crawl_all_sources
  cycleErrors,  \* the cycles that ended in an exception, caught and logged
  exitCode      \* the status the process exited with, -1 while it runs

schedVars == <<spc, cronParts, inflight, fires, suppressed, calls,
               cycleErrors, exitCode>>

VARIABLES
  kpc,          \* where the content choice of parse_article is: idle, done
  selTexts,     \* per content selector, the length of the stripped text of
                \* the element it finds, -1 when it finds none
  description,  \* the length of the description cached from the listing
  kcontent      \* the content parse_article returns

contentVars == <<kpc, selTexts, description, kcontent>>

VARIABLES
  dpc,          \* where the date choice of parse_article is: idle, done
  timeDate,     \* the date of the page's time element, NoDate if none
  elemDate,     \* the date of its article__date element, NoDate if none
  metaDate,     \* the date of its article:published_time meta tag
  urlDate,      \* the day of the /YYYY/MM/DD/ segment of the URL, 0 if none
  today,        \* the day parse_article runs on
  archiveDate,  \* the day of the archive page the article was listed on
  published     \* published_date of the article returned

dateVars == <<dpc, timeDate, elemDate, metaDate, urlDate, today, archiveDate,
              published>>

VARIABLES
  cbackends,    \* the storage backends both crawls are configured with
  cpcs,         \* per crawl, where its create_article_batch is: idle, db,
                \* csv, ret, done, raised
  cbatch,       \* per crawl, the batch it stores
  cres,         \* per crawl, the counts its call returned
  cCsv          \* per crawl, the rows of the CSV file of its StorageManager

concVars == <<cbackends, cpcs, cbatch, cres, cCsv>>

vars == <<storeVars, crawlVars, orchVars, apiVars, schedVars, contentVars,
  dateVars, concVars>>

notStore == <<crawlVars, orchVars, apiVars, schedVars, contentVars, dateVars,
  concVars>>
notCrawl == <<storeVars, orchVars, apiVars, schedVars, contentVars, dateVars,
  concVars>>
notOrch == <<storeVars, crawlVars, apiVars, schedVars, contentVars, dateVars,
  concVars>>
notApi == <<storeVars, crawlVars, orchVars, schedVars, contentVars, dateVars,
  concVars>>
notSched == <<storeVars, crawlVars, orchVars, apiVars, contentVars, dateVars,
  concVars>>
notContent == <<storeVars, crawlVars, orchVars, apiVars, schedVars, dateVars,
  concVars>>
notDate == <<storeVars, crawlVars, orchVars, apiVars, schedVars, contentVars,
  concVars>>
notConc ==
  <<storeVars, crawlVars, orchVars, apiVars, schedVars, contentVars, dateVars>>

(***************************************************************************)
(* models/database.py                                                      *)
(***************************************************************************)

\* The methods class Article defines.
ArticleMethods ==
  {"create", "get_by_id", "get_by_url", "exists", "get_by_source",
   "get_by_date_range", "count_by_source", "get_latest", "search",
   "count_total", "count_scraped_on_date", "count_scraped_since"}

\* Table articles: url TEXT UNIQUE NOT NULL, title TEXT NOT NULL.
UrlStored(tbl, url) == \E i \in 1..Len(tbl) : tbl[i].url = url

ArticlesConstraintOkNoUnique(tbl, url, title) ==
  url # NoneVal /\ title # NoneVal

ArticlesConstraintOk(tbl, url, title) ==
  url # NoneVal /\ title # NoneVal /\ ~UrlStored(tbl, url)

\* The row INSERT INTO articles adds; id is AUTOINCREMENT.
NewRow(tbl, source_id, url, title, content, published_date, t) ==
  [id |-> Len(tbl) + 1, source_id |-> source_id, url |-> url, title |-> title,
   content |-> content, published_date |-> published_date, scraped_date |-> t]

NoCreate == [called |-> FALSE, known |-> FALSE, sameRow |-> FALSE,
             result |-> [outcome |-> "none", id |-> 0]]

NoCall == [called |-> FALSE, n |-> 0, fresh |-> FALSE, repeat |-> FALSE,
           raised |-> FALSE, saved |-> 0, skipped |-> 0]

\* Article.create: the INSERT, sqlite3.IntegrityError caught and None returned.
ArticleCreateResult(tbl, url, title) ==
  IF ArticlesConstraintOk(tbl, url, title)
  THEN [outcome |-> "created", id |-> Len(tbl) + 1]
  ELSE [outcome |-> "none", id |-> 0]

\* The table after INSERT OR REPLACE instead of INSERT.
ArticleCreateTableReplace(tbl, source_id, url, title, content, published_date, t) ==
  IF url # NoneVal /\ title # NoneVal
  THEN IF UrlStored(tbl, url)
       THEN [i \in 1..Len(tbl) |->
               IF tbl[i].url = url
               THEN [tbl[i] EXCEPT !.source_id = source_id, !.title = title,
                                   !.content = content,
                                   !.published_date = published_date,
                                   !.scraped_date = t]
               ELSE tbl[i]]
       ELSE Append(tbl, NewRow(tbl, source_id, url, title, content, published_date, t))
  ELSE tbl

ArticleCreateTable(tbl, source_id, url, title, content, published_date, t) ==
  IF ArticlesConstraintOk(tbl, url, title)
  THEN Append(tbl, NewRow(tbl, source_id, url, title, content, published_date, t))
  ELSE tbl

ArticleCreate(source_id, url, title, content, published_date) ==
  /\ now < MaxOps
  /\ articles' = ArticleCreateTable(articles, source_id, url, title, content,
                                    published_date, now)
  /\ lastCreate' = [called |-> TRUE, known |-> UrlStored(articles, url),
                    sameRow |-> \E i \in 1..Len(articles) :
                                  /\ articles[i].url = url
                                  /\ articles[i].source_id = source_id
                                  /\ articles[i].title = title
                                  /\ articles[i].content = content,
                    result |-> ArticleCreateResult(articles, url, title)]
  /\ now' = now + 1
  /\ lastBatch' = <<>>
  /\ lastCall' = NoCall
  /\ UNCHANGED <<backends, csvRows>>

(***************************************************************************)
(* models/csv_storage.py                                                   *)
(***************************************************************************)

\* Python's "not x" for a text field.
Falsy(x) == x = NoneVal \/ x = ""

RECURSIVE CsvBatch(_, _, _, _)
\* CSVStorage.create_batch: [rows, saved, skipped] after the articles of batch.
CsvBatch(batch, source_id, t, acc) ==
  IF batch = <<>> THEN acc
  ELSE LET a == Head(batch) IN
       IF Falsy(a.url) \/ Falsy(a.title)
       THEN CsvBatch(Tail(batch), source_id, t,
                     [acc EXCEPT !.skipped = @ + 1])
       ELSE CsvBatch(Tail(batch), source_id, t,
                     [acc EXCEPT !.saved = @ + 1,
                                 !.rows = Append(@, [source_id |-> source_id,
                                                     url |-> a.url,
                                                     title |-> a.title,
                                                     scraped_date |-> t])])

(***************************************************************************)
(* models/storage.py                                                       *)
(***************************************************************************)

\* _parse_storage_config: the valid backends, 'db' when none is valid.
BackendConfigs == {{"db"}, {"csv"}, {"db", "csv"}}

\* self.article_model: set only when 'db' is configured.
HasArticleModel(bk) == "db" \in bk
HasCsvStorage(bk) == "csv" \in bk

\* The method create_article_batch calls on self.article_model.
ArticleBatchMethod == "create_batch"

\* Reading obj.name raises AttributeError unless the class defines name.
AttributeErrorOn(defined, name) == name \notin defined

\* StorageManager.create_article_batch: the outcome of one call.  db_result
\* and csv_result start as {saved: 0, skipped: 0}.  The database backend is
\* tried first: self.article_model.create_batch raises AttributeError, class
\* Article defining no such method, and the call ends there (there is no
\* try), before the CSV backend is written.  Without a database backend the
\* CSV counts are returned.
CreateArticleBatchOutcome(bk, rows, source_id, batch, t) ==
  LET zero == [rows |-> rows, saved |-> 0, skipped |-> 0]
      csv == IF HasCsvStorage(bk) THEN CsvBatch(batch, source_id, t, zero)
             ELSE zero
  IN IF HasArticleModel(bk) /\ AttributeErrorOn(ArticleMethods, ArticleBatchMethod)
     THEN [raised |-> TRUE, error |-> "AttributeError", saved |-> 0,
           skipped |-> 0, rows |-> rows]
     ELSE IF HasArticleModel(bk)
          THEN [raised |-> FALSE, error |-> "", saved |-> 0, skipped |-> 0,
                rows |-> csv.rows]
          ELSE [raised |-> FALSE, error |-> "", saved |-> csv.saved,
                skipped |-> csv.skipped, rows |-> csv.rows]

\* A batch the dedup claim speaks of: every article has URL and title, the
\* URLs are pairwise distinct, and none is stored yet in any backend.
ValidArticle(a) == ~Falsy(a.url) /\ ~Falsy(a.title)

FreshBatch(batch) ==
  /\ \A i \in 1..Len(batch) : ValidArticle(batch[i])
  /\ \A i, j \in 1..Len(batch) : i # j => batch[i].url # batch[j].url
  /\ \A i \in 1..Len(batch) :
       /\ ~UrlStored(articles, batch[i].url)
       /\ ~UrlStored(csvRows, batch[i].url)

\* One call of create_article_batch.  lastCall records its outcome, whether
\* its batch was fresh, and whether it repeats the batch of the call right
\* before it, which was fresh then.
CreateArticleBatch(source_id, batch) ==
  /\ now < MaxOps
  /\ LET o == CreateArticleBatchOutcome(backends, csvRows, source_id, batch, now)
     IN /\ csvRows' = o.rows
        /\ lastCall' = [called |-> TRUE, n |-> Len(batch),
                        fresh |-> FreshBatch(batch),
                        repeat |-> lastCall.called /\ lastCall.fresh
                                     /\ lastBatch = batch,
                        raised |-> o.raised, saved |-> o.saved,
                        skipped |-> o.skipped]
  /\ lastBatch' = batch
  /\ now' = now + 1
  /\ UNCHANGED <<backends, articles, lastCreate>>

\* The articles a batch is drawn from: valid ones, one without URL, one
\* without title.
BatchArticles ==
  [url : URLs, title : {"t1"}]
    \cup {[url |-> NoneVal, title |-> "t1"], [url |-> "u1", title |-> NoneVal]}

Batches == UNION {[1..n -> BatchArticles] : n \in 0..Cardinality(URLs)}

StoreIdle ==
  /\ backends = {"db"}
  /\ articles = <<>>
  /\ csvRows = <<>>
  /\ now = 0
  /\ lastCreate = NoCreate
  /\ lastBatch = <<>>
  /\ lastCall = NoCall

StoreInit ==
  /\ backends \in BackendConfigs
  /\ articles = <<>>
  /\ csvRows = <<>>
  /\ now = 0
  /\ lastCreate = NoCreate
  /\ lastBatch = <<>>
  /\ lastCall = NoCall

StoreCreate ==
  \E s \in SourceIds, u \in URLs \cup {NoneVal}, t \in Titles \cup {NoneVal},
     c \in Contents :
    ArticleCreate(s, u, t, c, NoneVal) /\ UNCHANGED notStore

StoreBatch ==
  \E s \in SourceIds, b \in Batches :
    CreateArticleBatch(s, b) /\ UNCHANGED notStore

(***************************************************************************)
(* Two crawls that store at the same time, each through the                *)
(* StorageManager of its own CrawlerManager, over the same database.       *)
(***************************************************************************)

Crawls == 1..2

\* The article both crawls store, and the one only crawl p stores.
SharedArticle == [url |-> "u1", title |-> "t1"]
OwnArticle(p) == [url |-> IF p = 1 THEN "u2" ELSE "u3", title |-> "t1"]

\* The batches save_batch of crawl p may hand to create_article_batch.
ConcBatches(p) == {<<SharedArticle>>, <<OwnArticle(p), SharedArticle>>}

NoCounts == [saved |-> 0, skipped |-> 0]

\* create_article_batch is entered by crawl p: db_result and csv_result are
\* set to zero counts.
ConcCall(p) ==
  /\ cpcs[p] = "idle"
  /\ cpcs' = [cpcs EXCEPT ![p] = "db"]
  /\ cres' = [cres EXCEPT ![p] = NoCounts]
  /\ UNCHANGED <<cbackends, cbatch, cCsv>>
  /\ UNCHANGED notConc

\* The database branch: self.article_model.create_batch raises
\* AttributeError when the database backend is configured.
ConcDb(p) ==
  /\ cpcs[p] = "db"
  /\ cpcs' = [cpcs EXCEPT ![p] =
               IF HasArticleModel(cbackends)
                  /\ AttributeErrorOn(ArticleMethods, ArticleBatchMethod)
               THEN "raised" ELSE "csv"]
  /\ UNCHANGED <<cbackends, cbatch, cres, cCsv>>
  /\ UNCHANGED notConc

\* The CSV branch: CSVStorage.create_batch appends the rows to the file of
\* this StorageManager.
ConcCsv(p) ==
  /\ cpcs[p] = "csv"
  /\ LET csv == IF HasCsvStorage(cbackends)
                THEN CsvBatch(cbatch[p], p, 0,
                              [rows |-> cCsv[p], saved |-> 0, skipped |-> 0])
                ELSE [rows |-> cCsv[p], saved |-> 0, skipped |-> 0]
     IN /\ cCsv' = [cCsv EXCEPT ![p] = csv.rows]
        /\ cres' = [cres EXCEPT ![p] = [saved |-> csv.saved,
                                        skipped |-> csv.skipped]]
  /\ cpcs' = [cpcs EXCEPT ![p] = "ret"]
  /\ UNCHANGED <<cbackends, cbatch>>
  /\ UNCHANGED notConc

\* The call returns: db_result when the database backend is configured,
\* else csv_result.
ConcReturn(p) ==
  /\ cpcs[p] = "ret"
  /\ cpcs' = [cpcs EXCEPT ![p] = "done"]
  /\ cres' = [cres EXCEPT ![p] =
               IF HasArticleModel(cbackends) THEN NoCounts ELSE cres[p]]
  /\ UNCHANGED <<cbackends, cbatch, cCsv>>
  /\ UNCHANGED notConc

ConcIdle ==
  /\ cbackends = {"db"}
  /\ cpcs = [p \in Crawls |-> "idle"]
  /\ cbatch = [p \in Crawls |-> <<>>]
  /\ cres = [p \in Crawls |-> NoCounts]
  /\ cCsv = [p \in Crawls |-> <<>>]

\* Two crawls about to store a batch each, over an empty database.
ConcInit ==
  /\ cbackends \in BackendConfigs
  /\ cpcs = [p \in Crawls |-> "idle"]
  /\ cbatch \in {b \in [Crawls -> UNION {ConcBatches(p) : p \in Crawls}] :
                    \A p \in Crawls : b[p] \in ConcBatches(p)}
  /\ cres = [p \in Crawls |-> NoCounts]
  /\ cCsv = [p \in Crawls |-> <<>>]

\* The rows stored with url, in the table articles and in the CSV files.
RowsWithUrl(url) ==
  Cardinality({i \in 1..Len(articles) : articles[i].url = url})
    + Cardinality({<<p, i>> \in Crawls \X (1..4) :
                     i <= Len(cCsv[p]) /\ cCsv[p][i].url = url})

(***************************************************************************)
(* scrapers/base_crawler.py                                                *)
(***************************************************************************)

\* The keyword parameters BaseCrawler.__init__ and BaseCrawler.crawl declare,
\* and the attributes BaseCrawler.__init__ sets on the instance.
BaseCrawlerInitParams ==
  {"source_url", "user_agent", "request_delay", "timeout", "max_retries"}
BaseCrawlerCrawlParams == {}
BaseCrawlerAttributes ==
  {"source_url", "base_domain", "request_delay", "timeout", "max_retries",
   "session", "last_request_time"}

\* A call raises TypeError when it passes a keyword the callee lacks.
TypeErrorOn(declared, passed) == ~(passed \subseteq declared)

Cap(x) == IF x > RequestDelay THEN RequestDelay ELSE x

\* _rate_limit: the time slept, given the time elapsed since the last stamp.
RateLimitSleep(elapsed) ==
  IF elapsed < RequestDelay THEN RequestDelay - elapsed ELSE 0

\* An outbound request issued after waiting w: the gap to the request before
\* it is checked against request_delay.
IssueRequest(w) ==
  /\ gapOk' = (gapOk /\ (anyReq => Cap(sinceReq + w) >= RequestDelay))
  /\ sinceReq' = 0
  /\ anyReq' = TRUE

\* fetch_page: _rate_limit, the stamp of last_request_time, then the GET.
\* The response is the caller's input: RequestException is caught and None
\* returned.
FetchPage ==
  /\ IssueRequest(RateLimitSleep(sinceStamp))
  /\ sinceStamp' = 0

\* An href of a listing: absolute on the site, relative to it, missing, or
\* one urljoin leaves without a network location (javascript:...).
HrefKinds == {"abs", "rel", "none", "noloc"}

\* absolute_url (urljoin) and is_valid_url: the URL an href stands for, and
\* whether it has a scheme and a network location.
AbsoluteUrl(h) == h.id
IsValidUrl(h) == h.kind \in {"abs", "rel"}

RECURSIVE DictFromKeys(_, _)
\* list(dict.fromkeys(urls)): the first occurrence of each URL, in order.
DictFromKeys(urls, seen) ==
  IF urls = <<>> THEN <<>>
  ELSE IF Head(urls) \in seen THEN DictFromKeys(Tail(urls), seen)
       ELSE <<Head(urls)>> \o DictFromKeys(Tail(urls), seen \cup {Head(urls)})

RECURSIVE AcceptedUrls(_)
\* The loop over article_links: the href present, made absolute, valid.
AcceptedUrls(links) ==
  IF links = <<>> THEN <<>>
  ELSE LET h == Head(links) IN
       IF h.kind # "none" /\ IsValidUrl(h)
       THEN <<AbsoluteUrl(h)>> \o AcceptedUrls(Tail(links))
       ELSE AcceptedUrls(Tail(links))

\* GenericNewsCrawler.get_article_urls on the fetched listing.
GenericGetArticleUrls(html) ==
  IF ~html.ok THEN <<>> ELSE DictFromKeys(AcceptedUrls(html.links), {})

\* A listing of n links to the articles 1..n.
LinksTo(n) == [i \in 1..n |-> [kind |-> "abs", id |-> i]]

\* crawl() is called.
CrawlStart ==
  /\ cpc = "idle"
  /\ cpc' = "listing"
  /\ UNCHANGED notCrawl
  /\ UNCHANGED <<adapter, site, cerr, candidates, idx, parsed, skips,
                 sinceStamp, sinceReq, anyReq, gapOk, nListReq, driver, sessions, bpage>>

\* get_article_urls of an HTTP adapter: one rate-limited listing fetch.
ListHttp ==
  /\ cpc = "listing" /\ adapter = "http"
  /\ FetchPage
  /\ nListReq' = nListReq + 1
  /\ candidates' = GenericGetArticleUrls(site)
  /\ idx' = 1
  /\ cpc' = "parsing"
  /\ UNCHANGED notCrawl
  /\ UNCHANGED <<adapter, site, cerr, parsed, skips, driver, sessions, bpage>>

\* One turn of the loop of crawl(): parse_article(url) of an HTTP adapter
\* fetches the page (rate-limited) and returns an article or None, or
\* raises; crawl() has no try around the call.
ParseHttpArticle ==
  /\ cpc = "parsing" /\ adapter = "http" /\ idx <= Len(candidates)
  /\ FetchPage
  /\ parsed' = Append(parsed, candidates[idx])
  /\ idx' = idx + 1
  /\ UNCHANGED notCrawl
  /\ UNCHANGED <<adapter, site, cpc, cerr, candidates, skips, nListReq,
                 driver, sessions, bpage>>

ParseHttpNone ==
  /\ cpc = "parsing" /\ adapter = "http" /\ idx <= Len(candidates)
  /\ FetchPage
  /\ skips' = skips + 1
  /\ idx' = idx + 1
  /\ UNCHANGED notCrawl
  /\ UNCHANGED <<adapter, site, cpc, cerr, candidates, parsed, nListReq,
                 driver, sessions, bpage>>

ParseHttpRaise ==
  /\ cpc = "parsing" /\ adapter = "http" /\ idx <= Len(candidates)
  /\ FetchPage
  /\ cpc' = "raised"
  /\ cerr' = "ParseError"
  /\ UNCHANGED notCrawl
  /\ UNCHANGED <<adapter, site, candidates, idx, parsed, skips, nListReq,
                 driver, sessions, bpage>>

\* The loop is over: crawl() returns articles.
CrawlReturn ==
  /\ cpc = "parsing" /\ idx > Len(candidates)
  /\ cpc' = "done"
  /\ UNCHANGED notCrawl
  /\ UNCHANGED <<adapter, site, cerr, candidates, idx, parsed, skips,
                 sinceStamp, sinceReq, anyReq, gapOk, nListReq, driver, sessions, bpage>>

\* Time passes.
Tick ==
  /\ sinceStamp < RequestDelay \/ sinceReq < RequestDelay
  /\ sinceStamp' = Cap(sinceStamp + 1)
  /\ sinceReq' = Cap(sinceReq + 1)
  /\ UNCHANGED notCrawl
  /\ UNCHANGED <<adapter, site, cpc, cerr, candidates, idx, parsed, skips,
                 anyReq, gapOk, nListReq, driver, sessions, bpage>>

(***************************************************************************)
(* parsers/rbc_ukraine_parser.py                                           *)
(***************************************************************************)

\* The attributes RBCUkraineCrawler.__init__ sets besides its parent's:
\* start_date and end_date stay local variables.
RbcAttributes == BaseCrawlerAttributes

\* get_article_urls of the archive adapter: _generate_archive_urls reads
\* self.start_date outside its try, which raises AttributeError before any
\* archive page is fetched.
ListArchive ==
  /\ cpc = "listing" /\ adapter = "archive"
  /\ AttributeErrorOn(RbcAttributes, "start_date")
  /\ cpc' = "raised"
  /\ cerr' = "AttributeError"
  /\ UNCHANGED notCrawl
  /\ UNCHANGED <<adapter, site, candidates, idx, parsed, skips,
                 sinceStamp, sinceReq, anyReq, gapOk, nListReq, driver, sessions, bpage>>

(***************************************************************************)
(* parsers/investing_parser.py                                             *)
(***************************************************************************)

\* The pages _generate_page_urls gives: page_start (1 when not given) up to
\* page_end.
PageStart == 1

\* A driver is started at every call.
GetDriverEager(held, n) == [held |-> TRUE, n |-> n + 1]

\* _get_driver: a driver is started only when self._driver is None; held
\* says whether the adapter holds one, n counts the sessions alive.
GetDriver(held, n) ==
  IF held THEN [held |-> held, n |-> n] ELSE [held |-> TRUE, n |-> n + 1]

\* InvestingCrawler.close: the driver held is quit and self._driver set to
\* None.
CloseDriver(held, n) ==
  IF held THEN [held |-> FALSE, n |-> n - 1] ELSE [held |-> held, n |-> n]

\* crawler.close() once crawl() has returned or raised: the finally of
\* crawl_source, or __exit__ of the crawler used as a context manager.
CrawlClose ==
  /\ cpc \in {"done", "raised"}
  /\ cpc' = "closed"
  /\ LET shut == CloseDriver(driver, sessions)
     IN driver' = shut.held /\ sessions' = shut.n
  /\ UNCHANGED notCrawl
  /\ UNCHANGED <<adapter, site, cerr, candidates, idx, parsed, skips,
                 sinceStamp, sinceReq, anyReq, gapOk, nListReq, bpage>>

\* get_article_urls of the browser adapter begins: _get_driver creates the
\* driver, and _login (the credentials are set in __init__) loads the home
\* page with driver.get, with no rate limit before it.
BrowserLogin ==
  /\ cpc = "listing" /\ adapter = "browser" /\ ~driver
  /\ LET first == GetDriver(driver, sessions)
         login == GetDriver(first.held, first.n)
     IN driver' = login.held /\ sessions' = login.n
  /\ IssueRequest(0)
  /\ bpage' = PageStart
  /\ candidates' = <<>>
  /\ UNCHANGED notCrawl
  /\ UNCHANGED <<adapter, site, cpc, cerr, idx, parsed, skips, sinceStamp,
                 nListReq>>

\* One listing page: driver.get(page_url), with no rate limit before it; a
\* failure of the page is caught and the next page is tried.
BrowserListPage ==
  /\ cpc = "listing" /\ adapter = "browser" /\ driver /\ bpage <= PageEnd
  /\ IssueRequest(0)
  /\ nListReq' = nListReq + 1
  /\ candidates' = candidates \o AcceptedUrls(site.links)
  /\ bpage' = bpage + 1
  /\ UNCHANGED notCrawl
  /\ UNCHANGED <<adapter, site, cpc, cerr, idx, parsed, skips, sinceStamp,
                 driver, sessions>>

\* get_article_urls returns urls.
BrowserListed ==
  /\ cpc = "listing" /\ adapter = "browser" /\ driver /\ bpage > PageEnd
  /\ idx' = 1
  /\ cpc' = "parsing"
  /\ UNCHANGED notCrawl
  /\ UNCHANGED <<adapter, site, cerr, candidates, parsed, skips, sinceStamp,
                 sinceReq, anyReq, gapOk, nListReq, driver, sessions, bpage>>

\* parse_article of the browser adapter: time.sleep(request_delay), then
\* driver.get(url); last_request_time is not stamped.
ParseBrowserArticle ==
  /\ cpc = "parsing" /\ adapter = "browser" /\ idx <= Len(candidates)
  /\ IssueRequest(RequestDelay)
  /\ sinceStamp' = Cap(sinceStamp + RequestDelay)
  /\ parsed' = Append(parsed, candidates[idx])
  /\ idx' = idx + 1
  /\ LET got == GetDriver(driver, sessions)
     IN driver' = got.held /\ sessions' = got.n
  /\ UNCHANGED notCrawl
  /\ UNCHANGED <<adapter, site, cpc, cerr, candidates, skips, nListReq,
                 bpage>>

ParseBrowserNone ==
  /\ cpc = "parsing" /\ adapter = "browser" /\ idx <= Len(candidates)
  /\ IssueRequest(RequestDelay)
  /\ sinceStamp' = Cap(sinceStamp + RequestDelay)
  /\ skips' = skips + 1
  /\ idx' = idx + 1
  /\ LET got == GetDriver(driver, sessions)
     IN driver' = got.held /\ sessions' = got.n
  /\ UNCHANGED notCrawl
  /\ UNCHANGED <<adapter, site, cpc, cerr, candidates, parsed, nListReq,
                 bpage>>

CrawlIdle ==
  /\ adapter = "http"
  /\ site = [ok |-> FALSE, links |-> <<>>]
  /\ cpc = "idle"
  /\ cerr = ""
  /\ candidates = <<>>
  /\ idx = 1
  /\ parsed = <<>>
  /\ skips = 0
  /\ sinceStamp = RequestDelay
  /\ sinceReq = RequestDelay
  /\ anyReq = FALSE
  /\ gapOk = TRUE
  /\ nListReq = 0
  /\ driver = FALSE
  /\ sessions = 0
  /\ bpage = PageStart

\* A crawler instance right after construction, and the site it will crawl.
CrawlInit(adapters, maxLinks) ==
  /\ adapter \in adapters
  /\ site \in {[ok |-> FALSE, links |-> <<>>]}
                \cup {[ok |-> TRUE, links |-> LinksTo(n)] : n \in 0..maxLinks}
  /\ cpc = "idle"
  /\ cerr = ""
  /\ candidates = <<>>
  /\ idx = 1
  /\ parsed = <<>>
  /\ skips = 0
  /\ sinceStamp = RequestDelay
  /\ sinceReq = RequestDelay
  /\ anyReq = FALSE
  /\ gapOk = TRUE
  /\ nListReq = 0
  /\ driver = FALSE
  /\ sessions = 0
  /\ bpage = PageStart

\* batch_size, as crawl_source passes it to crawl().
BatchSize == 10

\* The articles crawl() has parsed and holds in its local list: crawl() takes
\* no sink, and hands them to nobody before it returns.
Unflushed == Len(parsed)

\* The hrefs a listing page may carry, and the listing pages made of them.
Hrefs == [kind : HrefKinds, id : 1..MaxLinkId]
Listings == UNION {[1..n -> Hrefs] : n \in 0..MaxLinks}

\* A crawler instance right after construction, and the listing page of its
\* site, which may repeat links and carry links that are not accepted.
ListingInit ==
  /\ adapter \in {"http", "archive"}
  /\ site \in {[ok |-> FALSE, links |-> <<>>]}
                \cup {[ok |-> TRUE, links |-> l] : l \in Listings}
  /\ cpc = "idle"
  /\ cerr = ""
  /\ candidates = <<>>
  /\ idx = 1
  /\ parsed = <<>>
  /\ skips = 0
  /\ sinceStamp = RequestDelay
  /\ sinceReq = RequestDelay
  /\ anyReq = FALSE
  /\ gapOk = TRUE
  /\ nListReq = 0
  /\ driver = FALSE
  /\ sessions = 0
  /\ bpage = PageStart

(***************************************************************************)
(* parsers/investing_parser.py: the content of parse_article               *)
(***************************************************************************)

\* The selectors parse_article tries for the content, in order.
NumSelectors == 6

\* The length that makes a text meaningful content.
MinContent == 100

\* The lengths a selector's text is drawn from, -1 for no such element.
TextLengths == {-1, 0, MinContent - 1, MinContent, MinContent + 1}

\* content = '' before the loop.
NoContent == [src |-> "none", sel |-> 0, len |-> 0]

RECURSIVE SelectContent(_, _, _)
\* The loop over the selectors from selector i on, with content cur: a
\* selector that finds no element is passed over, the text of one that does
\* replaces content, and the loop breaks on a text longer than MinContent.
SelectContent(texts, i, cur) ==
  IF i > Len(texts) THEN cur
  ELSE IF texts[i] = -1 THEN SelectContent(texts, i + 1, cur)
  ELSE LET found == [src |-> "selector", sel |-> i, len |-> texts[i]] IN
       IF found.len # 0 /\ found.len > MinContent THEN found
       ELSE SelectContent(texts, i + 1, found)

\* The content of the loop is returned as it is.
ContentNoFallback(c, descr) == c

\* After the loop: content that is empty or shorter than MinContent is
\* replaced by the cached description.
ContentOrDescription(c, descr) ==
  IF c.len = 0 \/ c.len < MinContent
  THEN [src |-> "description", sel |-> 0, len |-> descr]
  ELSE c

\* parse_article of a cached candidate whose page has loaded, from the
\* selectors to the content of the article returned.
ParseContent ==
  /\ kpc = "idle"
  /\ kpc' = "done"
  /\ kcontent' = ContentOrDescription(
                   SelectContent(selTexts, 1, NoContent), description)
  /\ UNCHANGED <<selTexts, description>>
  /\ UNCHANGED notContent

ContentIdle ==
  /\ kpc = "idle"
  /\ selTexts = [i \in 1..NumSelectors |-> -1]
  /\ description = 0
  /\ kcontent = NoContent

\* A loaded article page, with what each selector finds on it, and the
\* description the listing gave.
ContentInit ==
  /\ kpc = "idle"
  /\ selTexts \in [1..NumSelectors -> TextLengths]
  /\ description \in {0, 1}
  /\ kcontent = NoContent

(***************************************************************************)
(* parsers/rbc_ukraine_parser.py: the date of parse_article                *)
(***************************************************************************)

\* A date string: its day (days are numbered from 1) and whether a time
\* follows the date after a 'T' or a space.
NoDate == [day |-> 0, time |-> FALSE]

PageDates ==
  {NoDate} \cup { [day |-> d, time |-> t] : d \in 1..MaxDay, t \in BOOLEAN }

\* "if not published_date": None and the empty string.
NotDate(d) == d.day = 0

\* The date found on the page: the time element, else the article__date
\* element, else the meta tag.
ExplicitDate(t, e, m) ==
  IF ~NotDate(t) THEN t ELSE IF ~NotDate(e) THEN e ELSE m

\* With no date on the page: the date of the URL's /YYYY/MM/DD/ segment,
\* else datetime.now().
FallbackDate(url_day, this_day) ==
  IF url_day # 0 THEN [day |-> url_day, time |-> FALSE]
  ELSE [day |-> this_day, time |-> FALSE]

\* A date with a 'T' or a space is cut to its date part.
NormalizeDate(d) == IF d.time THEN [day |-> d.day, time |-> FALSE] ELSE d

\* parse_article of the archive adapter, from the dates of the page and of
\* the URL to published_date.
ParseDate ==
  /\ dpc = "idle"
  /\ dpc' = "done"
  /\ LET explicit == ExplicitDate(timeDate, elemDate, metaDate) IN
       published' = NormalizeDate(
         IF NotDate(explicit)
         THEN FallbackDate(urlDate, today)
         ELSE explicit)
  /\ UNCHANGED <<timeDate, elemDate, metaDate, urlDate, today, archiveDate>>
  /\ UNCHANGED notDate

DateIdle ==
  /\ dpc = "idle"
  /\ timeDate = NoDate
  /\ elemDate = NoDate
  /\ metaDate = NoDate
  /\ urlDate = 0
  /\ today = 1
  /\ archiveDate = 1
  /\ published = NoDate

\* An article page listed on the archive page of archiveDate and fetched on
\* the day today, which is not before it.
DateInit ==
  /\ dpc = "idle"
  /\ timeDate \in PageDates
  /\ elemDate \in PageDates
  /\ metaDate \in PageDates
  /\ urlDate \in 0..MaxDay
  /\ archiveDate \in 1..MaxDay
  /\ today \in archiveDate..MaxDay
  /\ published = NoDate

(***************************************************************************)
(* utils/crawler_manager.py and class Source of models/database.py         *)
(***************************************************************************)

\* CrawlerManager.PARSERS: the registry of adapter kinds.
PARSERS == {"RBCUkraineCrawler"}

\* The parser_class values a caller may name: the registered one, and one
\* whose registry entry is commented out.
ParserNames == {"RBCUkraineCrawler", "BBCNewsCrawler"}

\* The keywords crawl_source passes to the adapter's constructor, and to
\* its crawl().
CrawlSourceInitKwargs ==
  {"user_agent", "request_delay", "timeout", "start_date", "end_date"}
CrawlSourceCrawlKwargs == {"on_batch", "batch_size"}

\* RBCUkraineCrawler.__init__(**kwargs) reads the dates with kwargs.get and
\* passes source_url and all of kwargs on to BaseCrawler.__init__.
RbcInitPassedOn(kwargs) == {"source_url"} \cup kwargs

\* The archive pages of the range start..end (days numbered from 1, 0 for
\* None): the defaults of __init__, then the loop of _generate_archive_urls.
ArchiveDays(start, end) ==
  IF start = 0 \/ end = 0 THEN 1
  ELSE IF start <= end THEN end - start + 1 ELSE 0

SourceUrlStoredNever(tbl, url) == FALSE

SourceUrlStored(tbl, url) == \E i \in 1..Len(tbl) : tbl[i].url = url

SourceIdByUrl(tbl, url) == CHOOSE i \in 1..Len(tbl) : tbl[i].url = url

\* Source.create: the INSERT, which the UNIQUE constraint on url refuses.
SourceCreateTable(tbl, url, parser_class) ==
  Append(tbl, [url |-> url, parser_class |-> parser_class,
               is_active |-> TRUE, last_crawled |-> 0])

NoOrchCall ==
  [op |-> "none", outcome |-> "none", id |-> 0, eligible |-> FALSE,
   listFetches |-> 0, found |-> 0, saved |-> 0, skipped |-> 0, url |-> "",
   rejected |-> 0]

ZeroStats ==
  [sources_crawled |-> 0, articles_found |-> 0, articles_saved |-> 0,
   articles_skipped |-> 0, errors |-> 0]

\* How a call of crawl_source ends: eligible says the source was found,
\* active and of a registered kind, so that the adapter is created.
CrawlSourceEnd(outcome, eligible, listFetches) ==
  [outcome |-> outcome, eligible |-> eligible, listFetches |-> listFetches,
   found |-> 0, saved |-> 0, skipped |-> 0]

\* crawl_source(source_id), statement by statement.
CrawlSourceOutcome(tbl, source_id, start, end) ==
  IF source_id \notin 1..Len(tbl)
  THEN CrawlSourceEnd("ValueError", FALSE, 0)
  ELSE IF ~tbl[source_id].is_active
  THEN CrawlSourceEnd("inactive", FALSE, 0)
  ELSE IF tbl[source_id].parser_class \notin PARSERS
  THEN CrawlSourceEnd("ValueError", FALSE, 0)
  ELSE IF TypeErrorOn(BaseCrawlerInitParams,
                      RbcInitPassedOn(CrawlSourceInitKwargs))
  THEN CrawlSourceEnd("TypeError", TRUE, 0)
  ELSE IF TypeErrorOn(BaseCrawlerCrawlParams, CrawlSourceCrawlKwargs)
  THEN CrawlSourceEnd("TypeError", TRUE, 0)
  ELSE IF AttributeErrorOn(RbcAttributes, "start_date")
  THEN CrawlSourceEnd("AttributeError", TRUE, 0)
  ELSE CrawlSourceEnd("ok", TRUE, ArchiveDays(start, end))

CrawlSourceRaises(r) == r.outcome \notin {"ok", "inactive"}

\* update_last_crawled, which crawl_source reaches when crawl() returned.
CrawlSourceTable(tbl, source_id, r, t) ==
  IF r.outcome = "ok"
  THEN [tbl EXCEPT ![source_id].last_crawled = t]
  ELSE tbl

RECURSIVE CrawlAllFoldAbort(_, _, _, _, _, _)
\* The loop without its try: the first source that raises ends it.
CrawlAllFoldAbort(ids, tbl, st, start, end, t) ==
  IF ids = <<>> THEN [tbl |-> tbl, stats |-> st]
  ELSE LET r == CrawlSourceOutcome(tbl, Head(ids), start, end) IN
       IF CrawlSourceRaises(r)
       THEN [tbl |-> tbl, stats |-> [st EXCEPT !.errors = @ + 1]]
       ELSE CrawlAllFoldAbort(
              Tail(ids), CrawlSourceTable(tbl, Head(ids), r, t),
              [st EXCEPT !.sources_crawled = @ + 1], start, end, t)

RECURSIVE CrawlAllFold(_, _, _, _, _, _)
\* The loop of crawl_all_sources over the active sources ids, from the
\* table tbl and the statistics st: the table and statistics it ends with.
CrawlAllFold(ids, tbl, st, start, end, t) ==
  IF ids = <<>> THEN [tbl |-> tbl, stats |-> st]
  ELSE LET r == CrawlSourceOutcome(tbl, Head(ids), start, end) IN
       CrawlAllFold(
         Tail(ids), CrawlSourceTable(tbl, Head(ids), r, t),
         IF CrawlSourceRaises(r)
         THEN [st EXCEPT !.errors = @ + 1]
         ELSE [st EXCEPT !.sources_crawled = @ + 1,
                         !.articles_found = @ + r.found,
                         !.articles_saved = @ + r.saved,
                         !.articles_skipped = @ + r.skipped],
         start, end, t)

\* The ids of all sources, active or not, from id i on.
AllIds(tbl, i) == [k \in 1..(Len(tbl) + 1 - i) |-> k + i - 1]

RECURSIVE ActiveIds(_, _)
\* get_all_active: the ids of the active sources, from id i on.
ActiveIds(tbl, i) ==
  IF i > Len(tbl) THEN <<>>
  ELSE IF tbl[i].is_active THEN <<i>> \o ActiveIds(tbl, i + 1)
       ELSE ActiveIds(tbl, i + 1)

\* Source.create called directly.
SourceCreate(url, parser_class) ==
  /\ oclock < MaxOrchOps
  /\ oclock' = oclock + 1
  /\ IF SourceUrlStored(sources, url)
     THEN /\ sources' = sources
          /\ olast' = [NoOrchCall EXCEPT !.op = "create",
                                         !.outcome = "IntegrityError"]
     ELSE /\ sources' = SourceCreateTable(sources, url, parser_class)
          /\ olast' = [NoOrchCall EXCEPT !.op = "create", !.outcome = "ok",
                                         !.id = Len(sources) + 1]
  /\ UNCHANGED <<mstats, orchStart, orchEnd>>
  /\ UNCHANGED notOrch

\* add_source(name, url, parser_class).
AddSource(url, parser_class) ==
  /\ oclock < MaxOrchOps
  /\ oclock' = oclock + 1
  /\ IF parser_class \notin PARSERS
     THEN /\ sources' = sources
          /\ olast' = [NoOrchCall EXCEPT !.op = "add_source", !.url = url,
                                         !.outcome = "ValueError"]
     ELSE IF SourceUrlStored(sources, url)
     THEN /\ sources' = sources
          /\ olast' = [NoOrchCall EXCEPT !.op = "add_source", !.url = url,
                         !.outcome = "existing",
                         !.id = SourceIdByUrl(sources, url)]
     ELSE /\ sources' = SourceCreateTable(sources, url, parser_class)
          /\ olast' = [NoOrchCall EXCEPT !.op = "add_source", !.url = url,
                         !.outcome = "ok", !.id = Len(sources) + 1]
  /\ UNCHANGED <<mstats, orchStart, orchEnd>>
  /\ UNCHANGED notOrch

\* The lists of default sources init_sources may hold: two sources of
\* different URLs, each of a registered kind or not (the list in the code
\* names a registered kind first and an unregistered one second).
DefaultSourceLists ==
  { << [url |-> "u1", parser_class |-> p1],
       [url |-> "u2", parser_class |-> p2] >> : p1, p2 \in ParserNames }

RECURSIVE InitSourcesFold(_, _, _)
\* The loop of init_sources: add_source for each default source inside a
\* try whose except Exception logs the failure and goes on; rejected counts
\* the calls that raised.
InitSourcesFold(defs, tbl, rejected) ==
  IF defs = <<>> THEN [tbl |-> tbl, rejected |-> rejected]
  ELSE LET d == Head(defs) IN
       IF d.parser_class \notin PARSERS
       THEN InitSourcesFold(Tail(defs), tbl, rejected + 1)
       ELSE IF SourceUrlStored(tbl, d.url)
       THEN InitSourcesFold(Tail(defs), tbl, rejected)
       ELSE InitSourcesFold(
              Tail(defs), SourceCreateTable(tbl, d.url, d.parser_class),
              rejected)

\* init_sources(manager) with the default sources defs: it returns
\* normally whatever add_source raised.
InitSources(defs) ==
  /\ oclock < MaxOrchOps
  /\ oclock' = oclock + 1
  /\ LET end == InitSourcesFold(defs, sources, 0) IN
       /\ sources' = end.tbl
       /\ olast' = [NoOrchCall EXCEPT !.op = "init_sources",
                                      !.outcome = "ok",
                                      !.rejected = end.rejected]
  /\ UNCHANGED <<mstats, orchStart, orchEnd>>
  /\ UNCHANGED notOrch

\* Source.deactivate(source_id).
Deactivate(source_id) ==
  /\ oclock < MaxOrchOps
  /\ oclock' = oclock + 1
  /\ sources' = IF source_id \in 1..Len(sources)
                THEN [sources EXCEPT ![source_id].is_active = FALSE]
                ELSE sources
  /\ olast' = [NoOrchCall EXCEPT !.op = "deactivate", !.outcome = "ok",
                                 !.id = source_id]
  /\ UNCHANGED <<mstats, orchStart, orchEnd>>
  /\ UNCHANGED notOrch

\* crawl_source(source_id).
CrawlSource(source_id) ==
  /\ oclock < MaxOrchOps
  /\ oclock' = oclock + 1
  /\ LET r == CrawlSourceOutcome(sources, source_id, orchStart, orchEnd) IN
       /\ sources' = CrawlSourceTable(sources, source_id, r, oclock + 1)
       /\ olast' = [op |-> "crawl_source", outcome |-> r.outcome,
                    id |-> source_id, eligible |-> r.eligible,
                    listFetches |-> r.listFetches, found |-> r.found,
                    saved |-> r.saved, skipped |-> r.skipped, url |-> "",
                    rejected |-> 0]
  /\ UNCHANGED <<mstats, orchStart, orchEnd>>
  /\ UNCHANGED notOrch

\* crawl_all_sources().
CrawlAllSources ==
  /\ oclock < MaxOrchOps
  /\ oclock' = oclock + 1
  /\ LET ids == ActiveIds(sources, 1)
         end == CrawlAllFold(ids, sources, ZeroStats, orchStart, orchEnd,
                             oclock + 1)
     IN IF ids = <<>>
        THEN /\ UNCHANGED <<sources, mstats>>
             /\ olast' = [NoOrchCall EXCEPT !.op = "crawl_all",
                                            !.outcome = "no_sources"]
        ELSE /\ sources' = end.tbl
             /\ mstats' = end.stats
             /\ olast' = [NoOrchCall EXCEPT !.op = "crawl_all",
                            !.outcome = "ok",
                            !.found = end.stats.articles_found,
                            !.saved = end.stats.articles_saved,
                            !.skipped = end.stats.articles_skipped]
  /\ UNCHANGED <<orchStart, orchEnd>>
  /\ UNCHANGED notOrch

OrchIdle ==
  /\ sources = <<>>
  /\ mstats = ZeroStats
  /\ olast = NoOrchCall
  /\ oclock = 0
  /\ orchStart = 0
  /\ orchEnd = 0

\* A CrawlerManager right after construction over an empty database, with
\* the start_date and end_date it was given.
OrchInit ==
  /\ sources = <<>>
  /\ mstats = ZeroStats
  /\ olast = NoOrchCall
  /\ oclock = 0
  /\ orchStart \in 0..MaxDay
  /\ orchEnd \in 0..MaxDay

(***************************************************************************)
(* api/base_fetcher.py and api/newsapi_fetcher.py                          *)
(***************************************************************************)

\* Python's "x or d" on a count: None and 0 give d.
Or(x, d) == IF x = 0 THEN d ELSE x

Min(a, b) == IF a < b THEN a ELSE b

CeilDiv(a, b) == (a + b - 1) \div b

\* The articles page holds in an API of total articles served in full pages
\* of size.
WellCount(total, size, page) ==
  IF total > (page - 1) * size THEN Min(size, total - (page - 1) * size)
  ELSE 0

\* The test after a page: fetched_so_far >= total_results.
ApiAllFetchedStrict(page, page_size, total_results) ==
  page * page_size > total_results

ApiAllFetched(page, page_size, total_results) ==
  page * page_size >= total_results

\* What a request can meet: a status code, a timeout, a connection error.
Responses == {"200", "401", "404", "429", "500", "timeout", "connection"}

\* max_retries, the default of BaseAPIFetcher.__init__.
MaxRetries == 3

\* status_forcelist of the session's Retry, among the statuses of Responses.
StatusForcelist == {"429", "500"}

\* The times the session sends a request that always meets resp: the
\* statuses of status_forcelist, timeouts and connection errors are retried
\* max_retries times.
SessionTries(resp) ==
  IF resp \in StatusForcelist \union {"timeout", "connection"}
  THEN 1 + MaxRetries ELSE 1

\* A 401 is logged and answered with None like any other failure.
MakeRequestSwallow(resp) == [raised |-> FALSE, body |-> resp = "200"]

\* _make_request: 200 returns the body, 401 raises ValueError, every other
\* status, a timeout and any other RequestException return None.
MakeRequestOutcome(resp) == [raised |-> resp = "401", body |-> resp = "200"]

\* fetch_all_articles(max_pages, page_size) is called: the defaults are
\* taken, and the for loop starts at page 1.
ApiStart(max_pages, page_size) ==
  /\ apc = "idle"
  /\ aMaxPages' = Or(max_pages, aMaxPages)
  /\ aPageSize' = Or(page_size, aPageSize)
  /\ apage' = 1
  /\ apc' = "loop"
  /\ UNCHANGED <<areqs, aTotal, aWell, aStop, aGot, aResp, aTries,
                 aReported, aLastN, aStatus>>
  /\ UNCHANGED notApi

\* One turn of the loop: fetch_articles(page) answers with status ok, n
\* articles that have a title and a URL, and totalResults total_results;
\* the API sends at most pageSize articles in a page.
ApiPageOk(n, total_results) ==
  /\ apc = "loop"
  /\ n <= aPageSize
  /\ MakeRequestOutcome("200").body
  /\ areqs' = areqs + 1
  /\ aResp' = "200"
  /\ aTries' = SessionTries("200")
  /\ aReported' = total_results
  /\ aLastN' = n
  /\ aStatus' = "ok"
  /\ aWell' = (aWell /\ n = WellCount(aTotal, aPageSize, apage)
                     /\ total_results = aTotal)
  /\ IF n = 0
     THEN apc' = "done" /\ aStop' = "empty" /\ UNCHANGED <<apage, aGot>>
     ELSE /\ aGot' = aGot + n
          /\ IF ApiAllFetched(apage, aPageSize, total_results)
             THEN apc' = "done" /\ aStop' = "total" /\ UNCHANGED apage
             ELSE IF apage = aMaxPages
             THEN apc' = "done" /\ aStop' = "max" /\ UNCHANGED apage
             ELSE apage' = apage + 1 /\ UNCHANGED <<apc, aStop>>
  /\ UNCHANGED <<aMaxPages, aPageSize, aTotal>>
  /\ UNCHANGED notApi

\* The loop goes on to the next page after a result whose status is not ok.
LoopOnErrorContinue(page, max_pages) ==
  IF page = max_pages THEN [pc |-> "done", stop |-> "max", page |-> page]
  ELSE [pc |-> "loop", stop |-> "", page |-> page + 1]

\* The loop after a result whose status is not ok: the error is logged and
\* the loop breaks.
LoopOnError(page, max_pages) ==
  [pc |-> "done", stop |-> "error", page |-> page]

\* One turn of the loop: _make_request returns None for resp, or resp is
\* 200 and the body's status is not ok; fetch_articles answers with status
\* error and the loop breaks.
ApiPageError(resp) ==
  /\ apc = "loop"
  /\ ~MakeRequestOutcome(resp).raised
  /\ areqs' = areqs + 1
  /\ aResp' = resp
  /\ aTries' = SessionTries(resp)
  /\ aWell' = FALSE
  /\ aStatus' = "error"
  /\ LET next == LoopOnError(apage, aMaxPages)
     IN apc' = next.pc /\ aStop' = next.stop /\ apage' = next.page
  /\ UNCHANGED <<aMaxPages, aPageSize, aTotal, aGot, aReported, aLastN>>
  /\ UNCHANGED notApi

\* One turn of the loop: _make_request raises ValueError for resp, and
\* neither fetch_articles nor fetch_all_articles catches it.
ApiPageUnauthorized(resp) ==
  /\ apc = "loop"
  /\ MakeRequestOutcome(resp).raised
  /\ areqs' = areqs + 1
  /\ aResp' = resp
  /\ aTries' = SessionTries(resp)
  /\ aWell' = FALSE
  /\ apc' = "raised"
  /\ aStop' = "401"
  /\ aStatus' = ""
  /\ UNCHANGED <<apage, aMaxPages, aPageSize, aTotal, aGot, aReported,
                 aLastN>>
  /\ UNCHANGED notApi

ApiEnded == apc \in {"done", "raised"}

ApiIdle ==
  /\ apc = "idle"
  /\ apage = 1
  /\ areqs = 0
  /\ aMaxPages = 1
  /\ aPageSize = 1
  /\ aTotal = 1
  /\ aWell = TRUE
  /\ aStop = ""
  /\ aGot = 0
  /\ aResp = ""
  /\ aTries = 0
  /\ aReported = 0
  /\ aLastN = 0
  /\ aStatus = ""

\* A NewsAPIFetcher right after construction, with its max_pages and
\* page_size, and the API it will query.
ApiInit ==
  /\ apc = "idle"
  /\ apage = 1
  /\ areqs = 0
  /\ aMaxPages \in 1..MaxPages
  /\ aPageSize \in 1..MaxPageSize
  /\ aTotal \in 1..MaxTotal
  /\ aWell = TRUE
  /\ aStop = ""
  /\ aGot = 0
  /\ aResp = ""
  /\ aTries = 0
  /\ aReported = 0
  /\ aLastN = 0
  /\ aStatus = ""

(***************************************************************************)
(* scheduler.py                                                            *)
(***************************************************************************)

\* The fields a cron schedule must have.
CronFields == 5

\* max_instances of the crawl job.
MaxInstances == 1

CanStartInstanceAlways(running) == TRUE

\* The scheduler's test before it starts an instance of a job.
CanStartInstance(running) == running < MaxInstances

CronValidAtLeast(parts) == parts >= CronFields

\* The test of main() on the split CRAWL_SCHEDULE: len(parts) != 5 raises.
CronValid(parts) == parts = CronFields

\* The exception of a cycle leaves run_crawl.
RunCrawlUncaught(failed) == [raised |-> failed, logged |-> failed]

\* run_crawl: the whole cycle runs in a try whose except Exception logs the
\* error; nothing is raised to the caller.
RunCrawlOutcome(failed) == [raised |-> FALSE, logged |-> failed]

\* main() up to the initial crawl: a schedule of other than five fields
\* raises ValueError, which is logged before sys.exit(1); otherwise the job
\* is added and run_crawl() is called in the main thread.
SchedConfigure ==
  /\ spc = "boot"
  /\ IF ~CronValid(cronParts)
     THEN spc' = "exited" /\ exitCode' = 1 /\ UNCHANGED <<inflight, calls>>
     ELSE /\ spc' = "initial" /\ inflight' = inflight + 1
          /\ calls' = calls + 1 /\ UNCHANGED exitCode
  /\ UNCHANGED <<cronParts, fires, suppressed, cycleErrors>>
  /\ UNCHANGED notSched

\* The initial run_crawl() returns and scheduler.start() is called; an
\* exception that left run_crawl would reach the except Exception of main(),
\* which ends the process with sys.exit(1).
InitialCrawlEnd(failed) ==
  /\ spc = "initial"
  /\ inflight' = inflight - 1
  /\ LET out == RunCrawlOutcome(failed)
     IN /\ cycleErrors' = cycleErrors + (IF out.logged THEN 1 ELSE 0)
        /\ IF out.raised
           THEN spc' = "exited" /\ exitCode' = 1
           ELSE spc' = "started" /\ UNCHANGED exitCode
  /\ UNCHANGED <<cronParts, fires, suppressed, calls>>
  /\ UNCHANGED notSched

\* The cron trigger fires: the job is started unless max_instances of it
\* are running, in which case the run is skipped.
TriggerFire ==
  /\ spc = "started"
  /\ fires < MaxFires
  /\ fires' = fires + 1
  /\ IF CanStartInstance(inflight)
     THEN inflight' = inflight + 1 /\ calls' = calls + 1
                                   /\ UNCHANGED suppressed
     ELSE suppressed' = suppressed + 1 /\ UNCHANGED <<inflight, calls>>
  /\ UNCHANGED <<spc, cronParts, cycleErrors, exitCode>>
  /\ UNCHANGED notSched

\* A scheduled run_crawl() returns in its worker thread, an exception of
\* the cycle caught and logged.
CycleEnd(failed) ==
  /\ spc = "started"
  /\ inflight > 0
  /\ inflight' = inflight - 1
  /\ LET out == RunCrawlOutcome(failed)
     IN cycleErrors' = cycleErrors + (IF out.logged THEN 1 ELSE 0)
  /\ UNCHANGED <<spc, cronParts, fires, suppressed, calls, exitCode>>
  /\ UNCHANGED notSched

\* KeyboardInterrupt or SystemExit: the scheduler is shut down, which waits
\* for the running job, and the process exits.
SchedStop ==
  /\ spc \in {"initial", "started"}
  /\ spc' = "exited"
  /\ exitCode' = 0
  /\ inflight' = 0
  /\ UNCHANGED <<cronParts, fires, suppressed, calls, cycleErrors>>
  /\ UNCHANGED notSched

SchedIdle ==
  /\ spc = "boot"
  /\ cronParts = CronFields
  /\ inflight = 0
  /\ fires = 0
  /\ suppressed = 0
  /\ calls = 0
  /\ cycleErrors = 0
  /\ exitCode = -1

\* The process at the start of main(), with the CRAWL_SCHEDULE it reads.
SchedInit ==
  /\ spc = "boot"
  /\ cronParts \in (CronFields - 1)..(CronFields + 1)
  /\ inflight = 0
  /\ fires = 0
  /\ suppressed = 0
  /\ calls = 0
  /\ cycleErrors = 0
  /\ exitCode = -1

(***************************************************************************)
(* Specifications: one per part of the program.                            *)
(***************************************************************************)

InitStore == StoreInit /\ CrawlIdle /\ OrchIdle /\ ApiIdle /\ SchedIdle
  /\ ContentIdle
  /\ DateIdle
  /\ ConcIdle

NextStore == StoreCreate \/ StoreBatch

\* The storage sink: Article.create and create_article_batch, in any order.
SpecStore == InitStore /\ [][NextStore]_vars

InitCrawl ==
  /\ CrawlInit({"http", "archive"}, MaxCand)
  /\ StoreIdle /\ OrchIdle /\ ApiIdle /\ SchedIdle
  /\ ContentIdle
  /\ DateIdle
  /\ ConcIdle

NextCrawl ==
  \/ CrawlStart
  \/ ListHttp
  \/ ListArchive
  \/ ParseHttpArticle
  \/ ParseHttpNone
  \/ ParseHttpRaise
  \/ CrawlReturn

\* One crawl() of an HTTP or archive adapter instance.
SpecCrawl == InitCrawl /\ [][NextCrawl]_vars

InitListing == ListingInit /\ StoreIdle /\ OrchIdle /\ ApiIdle /\ SchedIdle
  /\ ContentIdle
  /\ DateIdle
  /\ ConcIdle

\* One crawl() of an HTTP or archive adapter instance over a listing page
\* with repeated and unaccepted links.
SpecListing == InitListing /\ [][NextCrawl]_vars

InitRate ==
  /\ CrawlInit({"http", "browser"}, MaxRateCand)
  /\ StoreIdle /\ OrchIdle /\ ApiIdle /\ SchedIdle
  /\ ContentIdle
  /\ DateIdle
  /\ ConcIdle

NextRate ==
  \/ CrawlStart
  \/ ListHttp
  \/ ParseHttpArticle
  \/ ParseHttpNone
  \/ ParseHttpRaise
  \/ BrowserLogin
  \/ BrowserListPage
  \/ BrowserListed
  \/ ParseBrowserArticle
  \/ ParseBrowserNone
  \/ CrawlReturn
  \/ CrawlClose
  \/ Tick

\* One crawl() of an HTTP or browser adapter instance and the close() after
\* it, with time passing.
SpecRate == InitRate /\ [][NextRate]_vars

InitContent ==
  /\ ContentInit
  /\ StoreIdle /\ CrawlIdle /\ OrchIdle /\ ApiIdle /\ SchedIdle
  /\ DateIdle
  /\ ConcIdle

\* The choice of the content in parse_article of the browser adapter.
SpecContent == InitContent /\ [][ParseContent]_vars

InitDate ==
  /\ DateInit
  /\ StoreIdle /\ CrawlIdle /\ OrchIdle /\ ApiIdle /\ SchedIdle
  /\ ContentIdle
  /\ ConcIdle

\* The choice of published_date in parse_article of the archive adapter.
SpecDate == InitDate /\ [][ParseDate]_vars

InitConc ==
  /\ ConcInit
  /\ StoreIdle /\ CrawlIdle /\ OrchIdle /\ ApiIdle /\ SchedIdle
  /\ ContentIdle
  /\ DateIdle

NextConc ==
  \/ \E p \in Crawls : ConcCall(p)
  \/ \E p \in Crawls : ConcDb(p)
  \/ \E p \in Crawls : ConcCsv(p)
  \/ \E p \in Crawls : ConcReturn(p)

\* The stores of two crawls, interleaved statement by statement.
SpecConc == InitConc /\ [][NextConc]_vars

InitOrch == OrchInit /\ StoreIdle /\ CrawlIdle /\ ApiIdle /\ SchedIdle
  /\ ContentIdle
  /\ DateIdle
  /\ ConcIdle

NextOrch ==
  \/ \E u \in URLs, p \in ParserNames : SourceCreate(u, p)
  \/ \E u \in URLs, p \in ParserNames : AddSource(u, p)
  \/ \E defs \in DefaultSourceLists : InitSources(defs)
  \/ \E i \in SourceIds : Deactivate(i)
  \/ \E i \in SourceIds : CrawlSource(i)
  \/ CrawlAllSources

\* The orchestrator's operations, in any order.
SpecOrch == InitOrch /\ [][NextOrch]_vars

InitApi == ApiInit /\ StoreIdle /\ CrawlIdle /\ OrchIdle /\ SchedIdle
  /\ ContentIdle
  /\ DateIdle
  /\ ConcIdle

NextApi ==
  \/ \E m \in 0..MaxPages, s \in 0..MaxPageSize : ApiStart(m, s)
  \/ \E n \in 0..MaxPageSize, t \in 0..MaxTotal : ApiPageOk(n, t)
  \/ \E resp \in Responses : ApiPageError(resp)
  \/ \E resp \in Responses : ApiPageUnauthorized(resp)

\* One call of fetch_all_articles; every request is answered or times out,
\* so that the loop goes on.
SpecApi == InitApi /\ [][NextApi]_vars /\ WF_vars(NextApi)

InitSched == SchedInit /\ StoreIdle /\ CrawlIdle /\ OrchIdle /\ ApiIdle
  /\ ContentIdle
  /\ DateIdle
  /\ ConcIdle

NextSched ==
  \/ SchedConfigure
  \/ \E f \in BOOLEAN : InitialCrawlEnd(f)
  \/ TriggerFire
  \/ \E f \in BOOLEAN : CycleEnd(f)
  \/ SchedStop

\* The scheduler process.
SpecSched == InitSched /\ [][NextSched]_vars

(***************************************************************************)
(* Claims about the storage sink, checked under SpecStore.                 *)
(***************************************************************************)

\* C1: a call of create_article_batch with a batch of N valid articles,
\* pairwise distinct URLs, none stored before, returns saved = N and
\* skipped = 0, and the call right after it with the same batch returns
\* saved = 0 and skipped = N.
C1_DedupIdempotence ==
  /\ (lastCall.called /\ lastCall.fresh) =>
       (~lastCall.raised /\ lastCall.saved = lastCall.n /\ lastCall.skipped = 0)
  /\ (lastCall.called /\ lastCall.repeat) =>
       (~lastCall.raised /\ lastCall.saved = 0 /\ lastCall.skipped = lastCall.n)

\* C2: no two rows of table articles have the same URL, whatever store
\* operations ran, for whatever sources, in whatever order.
C2_UrlUnique ==
  \A i, j \in 1..Len(articles) : i # j => articles[i].url # articles[j].url

\* C2's case: two articles of different sources are stored and a store of
\* an already stored URL was attempted.
C2_Witness ==
  /\ Len(articles) = 2
  /\ articles[1].source_id # articles[2].source_id
  /\ lastCreate.called /\ lastCreate.known

\* C3: no step updates or deletes a stored row, and a store of an already
\* stored URL leaves the table as it was and ends with the skip signal
\* (Article.create returns None), not with a new row.
C3_Step ==
  /\ \A i \in 1..Len(articles) :
       i <= Len(articles') /\ articles'[i] = articles[i]
  /\ (lastCreate'.called /\ lastCreate'.known) =>
       (articles' = articles /\ lastCreate'.result.outcome = "none")

C4_PartialFailureContained ==
  cerr = "ParseError" => cpc \in {"parsing", "done"}

\* C5: at every point of a crawl at most one batch, that is at most
\* BatchSize articles, has been fetched and not yet handed to the sink.
C5_AtMostOneBatchUnflushed == Unflushed <= BatchSize

\* C8: once get_article_urls has run, of an HTML-scrape or an archive
\* adapter, it has returned every accepted link of the listing exactly once,
\* in the order of first occurrence.
C8_FirstOccurrenceOrder ==
  cpc # "idle" /\ cpc # "listing" =>
    /\ cerr # "AttributeError"
    /\ site.ok => candidates = DictFromKeys(AcceptedUrls(site.links), {})

\* C9: any two consecutive outbound requests of one crawler instance are
\* issued at least request_delay apart.
C9_RequestsSpaced == gapOk

(***************************************************************************)
(* Claims about the orchestrator, the API fetcher and the scheduler.       *)
(***************************************************************************)

\* C7: an archive adapter that the orchestrator creates with a start and an
\* end date issues one listing fetch per day of the range start..end.
C7_OneListingFetchPerDay ==
  (olast.op = "crawl_source" /\ olast.eligible
     /\ orchStart >= 1 /\ orchEnd >= orchStart) =>
    (olast.outcome = "ok" /\ olast.listFetches = orchEnd - orchStart + 1)

C6_Bounded ==
  /\ areqs <= aMaxPages
  /\ (apc = "done" /\ aWell) =>
       areqs = Min(aMaxPages, CeilDiv(aTotal, aPageSize))

\* C6: fetch_all_articles terminates and never requests more than max_pages
\* pages; against an API that holds T >= 1 articles and answers every
\* request with status ok, a full page and totalResults = T, it has made
\* min(max_pages, ceil(T / page_size)) requests when it returns.
C6_PaginationTerminates == []C6_Bounded /\ <>ApiEnded

\* The loop has returned after 2 requests of a well-behaved API with 3
\* articles in pages of 2 where 3 pages were allowed.
C6_Witness ==
  /\ apc = "done" /\ aWell /\ areqs = 2
  /\ aTotal = 3 /\ aPageSize = 2 /\ aMaxPages = 3

C10_Step ==
  /\ inflight' <= 1
  /\ (fires' # fires /\ inflight >= 1) =>
       (calls' = calls /\ inflight' = inflight
          /\ suppressed' = suppressed + 1)
  /\ calls' # calls => (spc = "boot" \/ fires' # fires)

\* C10: at most one crawl cycle is in flight; a fire of the trigger while a
\* cycle runs does not call the orchestrator, and a cycle starts only at
\* the step of a fire (or as the initial crawl), so no fire is queued.
C10_OverlapGuard == [][C10_Step]_vars

\* A fire was suppressed while a cycle ran, and that cycle has ended: the
\* orchestrator was called for the initial crawl and the first fire only.
C10_Witness ==
  /\ spc = "started" /\ inflight = 0
  /\ fires = 2 /\ suppressed = 1 /\ calls = 2

(***************************************************************************)
(* Claims about the orchestrator's handling of errors and of its sources,  *)
(* checked under SpecOrch.                                                 *)
(***************************************************************************)

C11_Step ==
  (olast'.op = "crawl_all" /\ olast'.outcome = "ok") =>
    /\ mstats'.sources_crawled + mstats'.errors = Len(ActiveIds(sources, 1))
    /\ mstats'.errors =
         Cardinality({i \in 1..Len(sources) :
           /\ sources[i].is_active
           /\ CrawlSourceRaises(
                CrawlSourceOutcome(sources, i, orchStart, orchEnd))})

\* C11: in crawl_all_sources every source whose crawl raises adds exactly
\* one to errors and the sources after it are still crawled: on return
\* sources_crawled + errors is the number of active sources selected.
C11_PerSourceIsolation == [][C11_Step]_vars

\* crawl_all_sources has returned after the crawls of two active sources
\* raised, the second crawled after the first had failed.
C11_Witness ==
  /\ olast.op = "crawl_all" /\ olast.outcome = "ok"
  /\ Len(ActiveIds(sources, 1)) = 2
  /\ mstats.errors = 2

\* C12: crawl_source raises to its caller only for an unknown source id or
\* an unknown adapter kind; a run that got as far as creating the adapter
\* returns its counts.
C12_OnlyConfigErrorsPropagate ==
  olast.op = "crawl_source" =>
    \/ olast.outcome \in {"ok", "inactive"}
    \/ olast.outcome = "ValueError" /\ ~olast.eligible

C13_Step ==
  olast'.op = "crawl_source" =>
    /\ olast'.eligible =>
         /\ olast'.outcome = "ok"
         /\ sources'[olast'.id].last_crawled = oclock'
    /\ olast'.outcome # "ok" => sources' = sources

C14_Step ==
  /\ (olast'.op = "crawl_source" /\ olast'.id \in 1..Len(sources)
        /\ ~sources[olast'.id].is_active) =>
       /\ olast'.outcome = "inactive" /\ ~olast'.eligible
       /\ olast'.listFetches = 0
       /\ olast'.found = 0 /\ olast'.saved = 0 /\ olast'.skipped = 0
       /\ sources' = sources
       /\ UNCHANGED <<storeVars, crawlVars>>
  /\ olast'.op = "crawl_all" =>
       /\ \A i \in 1..Len(sources) :
            ~sources[i].is_active => sources'[i] = sources[i]
       /\ olast'.outcome = "ok" =>
            mstats'.sources_crawled + mstats'.errors
              = Cardinality({i \in 1..Len(sources) : sources[i].is_active})
       /\ olast'.outcome = "no_sources" =>
            \A i \in 1..Len(sources) : ~sources[i].is_active

\* C14: crawl_source on a deactivated source creates no adapter, issues no
\* request, stores nothing, leaves last_crawled as it is and returns zero
\* counts; crawl_all_sources crawls the active sources only.
C14_InactiveNeverCrawled == [][C14_Step]_vars

\* crawl_source has returned for a source that was added and deactivated.
C14_Witness ==
  /\ olast.op = "crawl_source" /\ olast.outcome = "inactive"
  /\ olast.id \in 1..Len(sources) /\ ~sources[olast.id].is_active

\* crawl_all_sources has run over one active source next to a deactivated
\* one.
C14_WitnessAll ==
  /\ olast.op = "crawl_all" /\ olast.outcome = "ok"
  /\ Len(sources) = 2 /\ Len(ActiveIds(sources, 1)) = 1

C15_Step ==
  /\ Len(sources') >= Len(sources)
  /\ \A i \in 1..Len(sources) : sources'[i].url = sources[i].url
  /\ \A i, j \in 1..Len(sources') :
       i # j => sources'[i].url # sources'[j].url
  /\ (olast'.op = "add_source" /\ olast'.outcome # "ValueError"
        /\ \E i \in 1..Len(sources) : sources[i].url = olast'.url) =>
       /\ olast'.outcome = "existing"
       /\ sources' = sources
       /\ olast'.id \in 1..Len(sources)
       /\ sources[olast'.id].url = olast'.url

\* C15: add_source with a registered URL returns the id of the source that
\* has it and creates no row; no operation removes a source row or changes
\* its URL, and no two sources have the same URL.
C15_AddSourceIdempotent == [][C15_Step]_vars

\* add_source has returned the id of a source that was added and then
\* deactivated.
C15_Witness ==
  /\ olast.op = "add_source" /\ olast.outcome = "existing"
  /\ olast.id \in 1..Len(sources)
  /\ sources[olast.id].url = olast.url
  /\ ~sources[olast.id].is_active

(***************************************************************************)
(* Claims about the storage backends, checked under SpecStore.             *)
(***************************************************************************)

\* C16: with both the database and the CSV backend configured, a call of
\* create_article_batch returns counts, and every valid article of its
\* batch is then held by the database and has been written to the CSV file.
C16_BothBackendsWritten ==
  (lastCall.called /\ HasArticleModel(backends) /\ HasCsvStorage(backends)) =>
    /\ ~lastCall.raised
    /\ \A i \in 1..Len(lastBatch) :
         ValidArticle(lastBatch[i]) =>
           /\ UrlStored(articles, lastBatch[i].url)
           /\ UrlStored(csvRows, lastBatch[i].url)

(***************************************************************************)
(* Claims about the browser adapter's session, checked under SpecRate.     *)
(***************************************************************************)

\* C17: the browser adapter starts no session before its first use, never
\* has more than one alive, and holds none once close() has run after the
\* crawl, whether the crawl returned or raised.
C17_SessionScoped ==
  /\ sessions <= 1
  /\ driver <=> sessions = 1
  /\ cpc = "idle" => sessions = 0
  /\ adapter # "browser" => sessions = 0
  /\ cpc = "closed" => (~driver /\ sessions = 0)

\* The browser adapter has listed and parsed an article with its session,
\* and close() has run.
C17_Witness ==
  /\ adapter = "browser" /\ cpc = "closed"
  /\ Len(parsed) >= 1 /\ nListReq = PageEnd

(***************************************************************************)
(* Claims about errors in the scheduler, checked under SpecSched.          *)
(***************************************************************************)

C18_Step ==
  /\ cycleErrors' > cycleErrors => (spc' = "started" /\ exitCode' = -1)
  /\ (cycleErrors > 0 /\ fires' = fires + 1 /\ inflight = 0)
       => (calls' = calls + 1 /\ inflight' = 1)

\* C18: an error raised in a crawl cycle, the initial one included, is
\* logged and leaves the scheduler started, and every later trigger fire
\* that finds no cycle running starts one.
C18_ErrorsDoNotStopScheduler == [][C18_Step]_vars

\* The initial cycle and a scheduled one have both failed, and a fire after
\* them has started a third cycle.
C18_Witness ==
  /\ spc = "started" /\ cycleErrors = 2 /\ calls = 3 /\ inflight = 1

\* C19: with a schedule of other than five fields the process has exited
\* with status 1 once main() has run, and no cycle was started before.
C19_BadCronIsFatal ==
  cronParts # CronFields =>
    /\ spc \in {"boot", "exited"}
    /\ calls = 0 /\ inflight = 0 /\ fires = 0
    /\ spc = "exited" => exitCode = 1

\* main() has run with a schedule of six fields and the process has exited.
C19_Witness ==
  /\ cronParts = CronFields + 1 /\ spc = "exited" /\ exitCode = 1

(***************************************************************************)
(* Claims about the API transport, checked under SpecApi.                  *)
(***************************************************************************)

\* C20: a request that meets 401 was sent once and its ValueError ends
\* fetch_all_articles, while a request that meets any other status but 200,
\* a timeout or a connection error raises nothing: the page has no body and
\* the loop ends with what it had collected.
C20_UnauthorizedRaisesOthersDoNot ==
  /\ aResp = "401" => (apc = "raised" /\ aTries = 1)
  /\ aResp \in Responses \ {"200", "401"} =>
       (apc = "done" /\ aStop = "error")
  /\ apc = "raised" => aResp = "401"

\* The second page met 401 after a first page of articles.
C20_Witness ==
  /\ aResp = "401" /\ apc = "raised" /\ areqs = 2 /\ aGot >= 1

(***************************************************************************)
(* Claims about startup and the summary, checked under SpecOrch.           *)
(***************************************************************************)

\* C21: when a default source names an adapter kind that is not registered,
\* init_sources ends with the ValueError of add_source, so that its caller
\* stops before crawl_all_sources.
C21_UnknownKindFatal ==
  (olast.op = "init_sources" /\ olast.rejected > 0) =>
    olast.outcome = "ValueError"

(***************************************************************************)
(* Claims about the pagination loop, checked under SpecApi.                *)
(***************************************************************************)

\* C22: the loop that ended on a result of status ok ended because the
\* page was empty, or the articles fetched so far had reached the reported
\* total, or max_pages pages had been requested; and it goes on only while
\* none of the three holds.
C22_StopsOnlyOnTheThree ==
  /\ (apc = "done" /\ aStatus = "ok") =>
       \/ aLastN = 0
       \/ aGot >= aReported
       \/ areqs = aMaxPages
  /\ (apc = "loop" /\ aStatus = "ok") =>
       (aLastN > 0 /\ aGot < aReported /\ areqs < aMaxPages)

C23_Step ==
  /\ (areqs' = areqs + 1 /\ aStatus' = "error") =>
       /\ apc' = "done" /\ aStop' = "error"
       /\ aGot' = aGot
  /\ apc = "done" => (areqs' = areqs /\ aGot' = aGot /\ apc' = "done")

\* C23: a page whose result has a status other than ok ends the loop
\* without an exception, no further page is requested, and the articles of
\* the earlier pages are kept.
C23_ErrorStopsCleanly == [][C23_Step]_vars

\* The second page failed after a first page of articles, and the loop has
\* returned with the articles of the first page although a third page was
\* allowed.
C23_Witness ==
  /\ apc = "done" /\ aStop = "error" /\ aStatus = "error"
  /\ areqs = 2 /\ aGot >= 1 /\ aMaxPages = 3

(***************************************************************************)
(* Claims about what the adapters extract, checked under SpecContent.      *)
(***************************************************************************)

\* C24: the content parse_article returns is the text of a selector, of at
\* least MinContent characters, or the cached description; it is the cached
\* description whenever no selector yields MinContent characters.
C24_ContentOrDescription ==
  kpc = "done" =>
    /\ \/ /\ kcontent.src = "selector"
          /\ kcontent.len >= MinContent
          /\ selTexts[kcontent.sel] = kcontent.len
       \/ kcontent = [src |-> "description", sel |-> 0, len |-> description]
    /\ (\A i \in 1..NumSelectors : selTexts[i] < MinContent) =>
         kcontent.src = "description"

\* The first selector found 99 characters, no selector found 100, and the
\* description of the listing was returned.
C24_Witness ==
  /\ kpc = "done"
  /\ selTexts[1] = MinContent - 1
  /\ \A i \in 1..NumSelectors : selTexts[i] < MinContent
  /\ kcontent = [src |-> "description", sel |-> 0, len |-> description]

\* C25: published_date is the date found on the page when there is one,
\* otherwise the date of the URL's date segment when there is one, and
\* otherwise the date of the archive page being crawled.
C25_DateFallbackOrder ==
  dpc = "done" =>
    LET explicit == ExplicitDate(timeDate, elemDate, metaDate) IN
      /\ ~NotDate(explicit) => published.day = explicit.day
      /\ (NotDate(explicit) /\ urlDate # 0) => published.day = urlDate
      /\ (NotDate(explicit) /\ urlDate = 0) => published.day = archiveDate

(***************************************************************************)
(* Claims about one crawl of an adapter, checked under SpecCrawl.          *)
(***************************************************************************)

\* C26: a crawl that has passed its listing step has fetched the listing
\* exactly once, and a crawl whose listing page could not be fetched does
\* not end in Done.
C26_ListingOnceThenDoneOrFailed ==
  /\ cpc \in {"parsing", "done"} => nListReq = 1
  /\ cpc = "done" => site.ok

(***************************************************************************)
(* Claims about the browser adapter's listing, checked under SpecRate.     *)
(***************************************************************************)

\* C27: once get_article_urls of the browser adapter has returned, the URLs
\* it returned are those the pages listed, each once, at the place of its
\* first occurrence.
C27_BrowserListingDeduplicated ==
  (adapter = "browser" /\ cpc \in {"parsing", "done", "closed"}) =>
    /\ candidates = DictFromKeys(candidates, {})
    /\ \A i \in 1..Len(site.links) :
         \E j \in 1..Len(candidates) : candidates[j] = site.links[i].id

(***************************************************************************)
(* Claims about the counts of the sink, checked under SpecStore.           *)
(***************************************************************************)

\* C29: a call of create_article_batch returns counts in which every article
\* of the batch is counted once, as saved or as skipped.
C29_EveryArticleCounted ==
  lastCall.called =>
    /\ ~lastCall.raised
    /\ lastCall.saved + lastCall.skipped = lastCall.n

(***************************************************************************)
(* Claims about the summary of a run, checked under SpecOrch.              *)
(***************************************************************************)

\* C30: the summary crawl_all_sources has just returned counts that run
\* only: one outcome, crawled or error, per active source, and zeros when
\* no source is active.
C30_SummaryOfThisRunOnly ==
  olast.op = "crawl_all" =>
    /\ mstats.sources_crawled + mstats.errors = Len(ActiveIds(sources, 1))
    /\ olast.outcome = "no_sources" => mstats = ZeroStats

(***************************************************************************)
(* Claims about concurrent stores, checked under SpecConc.                 *)
(***************************************************************************)

\* C28: when both crawls have stored their batch, which holds the same
\* article, neither store has raised, one row with its URL is stored, and
\* one store has counted it as saved and the other as skipped.
C28_ConcurrentStoresSerialized ==
  (\A p \in Crawls : cpcs[p] \in {"done", "raised"}) =>
    /\ \A p \in Crawls : cpcs[p] = "done"
    /\ RowsWithUrl(SharedArticle.url) = 1
    /\ cres[1].skipped + cres[2].skipped = 1
    /\ cres[1].saved + cres[2].saved = Len(cbatch[1]) + Len(cbatch[2]) - 1

====
